---- MODULE Spec2Model ----
(***************************************************************************)
(* LLM output verification pipeline of nawthtech-api-d1:                   *)
(*   src/src/lib/llm-verifier/LLMVerifier.ts  (LLMVerifier: verify,        *)
(*       callLLMWithRetry, handleVerificationError, verifyBatch)           *)
(*   src/unnamed/part_007 lines 121-531 (llm-verifier/utils.ts: parser,    *)
(*       score normalizer, retry classifier, sleep)                        *)
(*   src/unnamed/part_003 (utils/crypto: generateJWT, verifyJWT, password  *)
(*       reset tokens), src/unnamed/part_002 (registerUser) with the users *)
(*       table of src/unnamed/part_011, src/src/services/ai/openai.ts      *)
(*       (callAI and its provider functions)                               *)
(*                                                                         *)
(* Specifications: Spec (verify, verifyBatch), SinkSpec (failing Sentry    *)
(* calls), BatchSpec (verifyBatch with any batchSize, under fairness),     *)
(* ConfigSpec (getStats and testConnection beside them), RegistrationSpec  *)
(* (concurrent registerUser requests) and StandaloneSpec (functions called *)
(* once on an input of their domain).                                      *)
(*                                                                         *)
(* Numbers that the code treats as floats (confidence, scores) are kept in *)
(* thousandths: 1000 stands for 1.0, 500 for 0.5.  Durations are in ms.    *)
(***************************************************************************)
EXTENDS Integers, Sequences, FiniteSets, TLC

(* ------------------------------ bounds -------------------------------- *)
\* largest this.maxRetries explored for a single verify()
MaxRetries == 3
\* verifyBatch() is explored while inputs.length * (maxRetries + 1), the most
\* provider calls its retry paths can make, stays within this number
MaxBatchCalls == 8
\* longest input list given to verifyBatch()
MaxInputs == 4
\* largest options.batchSize given to verifyBatch(); 0 stands for absent or 0
MaxBatchSize == 2
\* how far below 0 the loop variable of verifyBatch is followed
MaxBackward == 3
\* normalizeScore is called on every score from 0 to MaxFineScore thousandths
\* and on every whole score from 0 to MaxWholeScore
MaxFineScore == 1500
MaxWholeScore == 150

(* ------------------------ program constants --------------------------- *)
DefaultBatchSize == 3
BackoffBaseMs == 1000
PacingMs == 1000
DefaultConfidence == 500
One == 1000

(* --------------------------- thrown values ---------------------------- *)
\* A thrown value: kind "null" is null/undefined, "string" a non-empty
\* primitive string, "object" an Error or plain object with the three fields
\* the code reads: code ("none" = absent), status (0 = absent), msg
\* ("none" = absent, "nonstring" = a value without an includes method).
Err(kind, code, status, msg) ==
  [kind |-> kind, code |-> code, status |-> status, msg |-> msg]

ThrownNull == Err("null", "none", 0, "none")
ThrownString == Err("string", "none", 0, "none")
Http500 == Err("object", "none", 500, "Internal Server Error")
Http429 == Err("object", "none", 429, "rate limit exceeded")
Http401 == Err("object", "none", 401, "Unauthorized")
ConnReset == Err("object", "ECONNRESET", 0, "socket hang up")
TimedOut == Err("object", "none", 0, "request timed out")
PlainError == Err("object", "none", 0, "bad response")
NonStringMsg == Err("object", "none", 0, "nonstring")
\* the TypeError the runtime raises on null.message or on 42.includes(...)
TypeErr == Err("object", "none", 0, "TypeError")
NoError == Err("none", "none", 0, "none")

\* what the provider call may throw in a single verify()
ProviderErrors ==
  {ThrownNull, ThrownString, Http500, Http429, Http401, ConnReset, TimedOut,
   PlainError, NonStringMsg}
\* what the provider call may throw in a verifyBatch() item
BatchProviderErrors == {ThrownNull, ThrownString, Http500, Http401}

\* String.prototype.includes on the messages of the model
MsgIncludes(msg, phrase) ==
  <<msg, phrase>> \in
    {<<"rate limit exceeded", "rate limit">>,
     <<"too many requests, slow down", "too many requests">>,
     <<"quota exceeded for this key", "quota exceeded">>,
     <<"request timed out", "timed out">>,
     <<"timeout of 30000ms exceeded", "timeout">>}

(* -------------------------- Retry Classifier -------------------------- *)
networkErrors ==
  {"ECONNRESET", "ETIMEDOUT", "ECONNREFUSED", "ENOTFOUND", "EAI_AGAIN",
   "NETWORK_ERROR"}
retryableStatuses == {408, 429, 500, 502, 503, 504}

\* isRetryableError(error): "true", "false", or "TypeError" when the
\* evaluation itself throws (message present but without includes).
isRetryableError(error) ==
  IF error.kind = "null" THEN "false"
  ELSE IF error.code \in networkErrors THEN "true"
  ELSE IF error.status # 0
    THEN (IF error.status \in retryableStatuses THEN "true" ELSE "false")
  ELSE IF error.msg = "nonstring" THEN "TypeError"
  ELSE IF error.msg = "none" THEN "false"
  ELSE IF \E p \in {"rate limit", "too many requests", "quota exceeded"} :
            MsgIncludes(error.msg, p) THEN "true"
  ELSE IF \E p \in {"timeout", "timed out"} : MsgIncludes(error.msg, p)
    THEN "true"
  ELSE "false"

(* ---------------------- JSON values of the reply ---------------------- *)
\* A JSON value as far as the parser looks at it.  t is its type: "absent"
\* (undefined), "null", "bool" (b), "num" (n, in thousandths), "str" or
\* "other" (object/array).  For a string, pf tells whether parseFloat reads
\* a number from it and nm whether Number() does; n is that number.
JV(t, b, n, pf, nm) == [t |-> t, b |-> b, n |-> n, pf |-> pf, nm |-> nm]
Absent == JV("absent", FALSE, 0, FALSE, FALSE)
JNull == JV("null", FALSE, 0, FALSE, FALSE)
JBool(b) == JV("bool", b, 0, FALSE, FALSE)
JNum(n) == JV("num", FALSE, n, TRUE, TRUE)
\* a string holding a decimal literal, e.g. "0.9"
JNumStr(n) == JV("str", FALSE, n, TRUE, TRUE)
\* a string that starts with a number, e.g. "85%": parseFloat reads it,
\* Number() gives NaN
JPrefixStr(n) == JV("str", FALSE, n, TRUE, FALSE)
\* a non-empty string without a number, e.g. "high"
JText == JV("str", FALSE, 0, FALSE, FALSE)
JOther == JV("other", FALSE, 0, FALSE, FALSE)

\* Boolean(v)
ToBoolean(v) ==
  CASE v.t = "absent" -> FALSE
    [] v.t = "null" -> FALSE
    [] v.t = "bool" -> v.b
    [] v.t = "num" -> v.n # 0
    [] v.t = "str" -> TRUE
    [] OTHER -> TRUE

\* v ?? d
Nullish(v, d) == IF v.t \in {"absent", "null"} THEN d ELSE v

\* the relational operators coerce their operand with ToNumber: NaN for
\* undefined, non-numeric strings and objects; 0 for null; 1/0 for booleans
IsNaNNumber(v) ==
  \/ v.t \in {"absent", "other"}
  \/ v.t = "str" /\ ~v.nm
ToNumber(v) ==
  CASE v.t = "bool" -> (IF v.b THEN One ELSE 0)
    [] v.t = "null" -> 0
    [] OTHER -> v.n

(* --------------------- Confidence/Score Normalizer -------------------- *)
\* normalizeScore without its `score >= 1` line
normalizeScoreNoUpperClamp(score) ==
  LET nan == IsNaNNumber(score)
      x == ToNumber(score)
  IN  IF ~nan /\ x <= 0 THEN JNum(0)
      ELSE IF ~nan /\ x > 100 * One THEN JNum(x \div 100)
      ELSE IF ~nan /\ x > 10 * One THEN JNum(x \div 10)
      ELSE IF ~nan /\ x > 5 * One THEN JNum(x \div 5)
      ELSE score

\* normalizeScore(score); every comparison with NaN is false, and the last
\* line returns the argument itself, whatever its type
normalizeScore(score) ==
  LET nan == IsNaNNumber(score)
      x == ToNumber(score)
  IN  IF ~nan /\ x <= 0 THEN JNum(0)
      ELSE IF ~nan /\ x >= One THEN JNum(One)
      ELSE IF ~nan /\ x > 100 * One THEN JNum(x \div 100)
      ELSE IF ~nan /\ x > 10 * One THEN JNum(x \div 10)
      ELSE IF ~nan /\ x > 5 * One THEN JNum(x \div 5)
      ELSE score

\* calculateConfidence(score)
calculateConfidence(score) ==
  IF score.t = "num" THEN normalizeScore(score)
  ELSE IF score.t = "str" /\ score.pf THEN normalizeScore(JNum(score.n))
  ELSE JNum(DefaultConfidence)

(* --------------------------- Response Parser -------------------------- *)
validCategoryNames ==
  {"toxicity", "factuality", "coherence", "relevance", "safety",
   "moderation", "bias"}
EmptyMap == [k \in {} |-> 0]

\* One entry of the reply's categories object.  obj: the entry is a (non-null)
\* object; expl: its explanation: "" (absent or falsy), "poison" (an object
\* whose toString and valueOf are not callable, so that String() throws a
\* TypeError, e.g. {"toString":1,"valueOf":1}), or the text.
CatEntry(obj, passed, score, expl) ==
  [obj |-> obj, passed |-> passed, score |-> score, expl |-> expl]
CategoryResult(passed, score, explanation) ==
  [passed |-> passed, score |-> score, explanation |-> explanation]

\* The parsed JSON value: truthy (what `if (jsonData)` tests) and the three
\* fields the validation reads; a truthy primitive or array has none of them.
Data(truthy, isValid, confidence, categories) ==
  [truthy |-> truthy, isValid |-> isValid, confidence |-> confidence,
   categories |-> categories]
NoData == Data(FALSE, Absent, Absent, EmptyMap)

\* The raw output text.  form: "json" (JSON.parse of the whole text works),
\* "embedded" (only the {...} span parses), "repairable" (only the repaired
\* span parses), "broken" (a {...} span that never parses), "free" (no
\* braces).  words: the lower-cased words of the text; conf: the number
\* after the word "confidence" (-1: none); confident/uncertain: how many of
\* the hedge words of each list occur.
Text(form, data, words, conf, confident, uncertain) ==
  [form |-> form, data |-> data, words |-> words, conf |-> conf,
   confident |-> confident, uncertain |-> uncertain]

\* the result record; error = "none" stands for an absent error field
Result(isValid, confidence, categories, error) ==
  [isValid |-> isValid, confidence |-> confidence, categories |-> categories,
   error |-> error]

\* extractJSONFromText(text): the parsed value, or null
extractJSONFromText(text) ==
  IF text.form \in {"json", "embedded", "repairable"}
    THEN [isNull |-> FALSE, data |-> text.data]
    ELSE [isNull |-> TRUE, data |-> NoData]

\* validateCategories throws when String(explanation) throws
validateCategoriesThrows(categories) ==
  \E c \in validCategoryNames \cap DOMAIN categories :
    categories[c].obj /\ categories[c].expl = "poison"

\* validateCategories that copies the reply's categories and adds no default
validateCategoriesSparse(categories) ==
  [c \in {d \in validCategoryNames \cap DOMAIN categories : categories[d].obj} |->
     CategoryResult(
       ToBoolean(Nullish(categories[c].passed, JBool(FALSE))),
       normalizeScore(Nullish(categories[c].score, JNum(0))),
       IF categories[c].expl = "" THEN "Not provided" ELSE categories[c].expl)]

\* validateCategories(categories)
validateCategories(categories) ==
  [c \in validCategoryNames |->
     IF c \in DOMAIN categories /\ categories[c].obj
       THEN CategoryResult(
              ToBoolean(Nullish(categories[c].passed, JBool(FALSE))),
              normalizeScore(Nullish(categories[c].score, JNum(0))),
              IF categories[c].expl = "" THEN "Not provided"
                                         ELSE categories[c].expl)
       ELSE CategoryResult(FALSE, JNum(0), "Category not checked")]

\* validateAndFormatResult(data, originalInput)
validateAndFormatResult(data) ==
  Result(ToBoolean(data.isValid), calculateConfidence(data.confidence),
         validateCategories(data.categories), "none")

\* String.prototype.includes(indicator) on a word of the text
WordIncludes(word, indicator) ==
  \/ word = indicator
  \/ <<word, indicator>> \in
       {<<"isvalid", "valid">>, <<"invalid", "valid">>, <<"unsafe", "safe">>,
        <<"inappropriate", "appropriate">>, <<"rejected", "reject">>,
        <<"looks", "ok">>}
positiveIndicators ==
  {"valid", "passed", "ok", "good", "safe", "appropriate", "acceptable"}
negativeIndicators ==
  {"invalid", "failed", "bad", "unsafe", "inappropriate", "reject"}

\* calculateConfidenceFromText(text)
calculateConfidenceFromText(text) ==
  IF text.conf >= 0 THEN normalizeScore(JNum(text.conf))
  ELSE IF text.confident > text.uncertain THEN JNum(800)
  ELSE IF text.uncertain > text.confident THEN JNum(400)
  ELSE JNum(600)

\* a free-text parse that looks at the positive indicators only
parseUnstructuredPositiveOnly(text) ==
  Result(\E w \in text.words : \E p \in positiveIndicators : WordIncludes(w, p),
         calculateConfidenceFromText(text), EmptyMap, "none")

\* parseUnstructuredResponse(text, originalInput)
parseUnstructuredResponse(text) ==
  LET hasPositive ==
        \E w \in text.words : \E p \in positiveIndicators : WordIncludes(w, p)
      hasNegative ==
        \E w \in text.words : \E p \in negativeIndicators : WordIncludes(w, p)
  IN  Result(hasPositive /\ ~hasNegative, calculateConfidenceFromText(text),
             EmptyMap, "none")

\* createErrorResult(message, originalInput)
createErrorResult(message) == Result(FALSE, JNum(0), EmptyMap, message)

\* parseLLMResponse(response, originalInput): the result and the path that
\* produced it ("structured", "freetext", "parseError")
parseLLMResponse(text) ==
  LET jsonData == extractJSONFromText(text)
  IN  IF ~jsonData.isNull /\ jsonData.data.truthy
        THEN IF validateCategoriesThrows(jsonData.data.categories)
               THEN [result |->
                       createErrorResult("Failed to parse verification response"),
                     path |-> "parseError"]
               ELSE [result |-> validateAndFormatResult(jsonData.data),
                     path |-> "structured"]
        ELSE [result |-> parseUnstructuredResponse(text), path |-> "freetext"]

(* ----------------------- provider reply texts ------------------------- *)
GoodEntry == CatEntry(TRUE, JBool(TRUE), JNum(800), "details")
\* the documented output schema, all seven categories
WellFormedText ==
  Text("json",
       Data(TRUE, JBool(TRUE), JNum(900), [c \in validCategoryNames |-> GoodEntry]),
       {"isvalid"}, 900, 0, 0)
\* only toxicity populated, one unknown category, confidence 85 of 100
OnlyToxicityText ==
  Text("json",
       Data(TRUE, JBool(FALSE), JNum(85 * One),
            [c \in {"toxicity", "spam"} |-> GoodEntry]),
       {"isvalid"}, 85 * One, 0, 0)
\* JSON inside prose; confidence "0.7" as a string; no categories
EmbeddedText ==
  Text("embedded", Data(TRUE, Absent, JNumStr(700), EmptyMap),
       {"isvalid"}, 700, 0, 0)
\* JSON that needs the key/comma repairs; isValid "false" as a string,
\* negative confidence, a category that is no object, a string score
RepairableText ==
  Text("repairable",
       Data(TRUE, JText, JNum(0 - 3 * One),
            [c \in {"toxicity", "bias"} |->
               IF c = "toxicity" THEN CatEntry(FALSE, Absent, Absent, "")
               ELSE CatEntry(TRUE, Absent, JNumStr(900), "")]),
       {"isvalid"}, 3 * One, 0, 0)
\* confidence that is no number: "high"
WordConfidenceText ==
  Text("json", Data(TRUE, JBool(TRUE), JText, EmptyMap), {"isvalid"}, -1, 0, 0)
\* a JSON primitive such as 5: truthy, no fields
PrimitiveText == Text("json", Data(TRUE, Absent, Absent, EmptyMap), {}, -1, 0, 0)
\* the text null: JSON.parse works and gives a falsy value
NullText == Text("json", NoData, {}, -1, 0, 0)
\* a category whose explanation makes String() throw
PoisonText ==
  Text("json",
       Data(TRUE, JBool(TRUE), JNum(900),
            [c \in {"toxicity"} |-> CatEntry(TRUE, JBool(TRUE), JNum(900), "poison")]),
       {"isvalid"}, 900, 0, 0)
\* a {...} span that cannot be repaired
BrokenText == Text("broken", NoData, {"isvalid", "certainly"}, -1, 1, 0)
\* "isValid: true, confidence is about 0.9, reason: looks fine"
FreeText == Text("free", NoData, {"isvalid", "looks"}, 900, 0, 0)
\* "probably invalid"
FreeNegativeText == Text("free", NoData, {"invalid", "probably"}, -1, 0, 1)
\* "confidence: 95"
FreePercentText == Text("free", NoData, {}, 95 * One, 0, 0)
\* the empty text (no output_text in the reply)
EmptyText == Text("free", NoData, {}, -1, 0, 0)

\* what the provider may return in a single verify()
Texts ==
  {WellFormedText, OnlyToxicityText, EmbeddedText, RepairableText,
   WordConfidenceText, PrimitiveText, NullText, PoisonText, BrokenText,
   FreeText, FreeNegativeText, FreePercentText, EmptyText}
\* what the provider may return in a verifyBatch() item
BatchTexts == {WellFormedText}

(* ------------------ configuration and per-call options ---------------- *)
\* the keys of `configs` in initializeProvider
configs == {"openai", "gemini", "anthropic"}
\* provider names given as options.provider or env.AI_PROVIDER; "" is absent
ProviderNames ==
  {"", "openai", "gemini", "anthropic", "huggingface", "ollama", "opena1"}

\* initializeProvider(env, provider): the name of the descriptor it returns
initializeProvider(envProvider, provider) ==
  LET providerName == IF provider # "" THEN provider
                      ELSE IF envProvider # "" THEN envProvider
                      ELSE "openai"
  IN  IF providerName \in configs THEN providerName ELSE "openai"

\* initializeClient(): the client of this.providerConfig.name, or the Error
\* of its default case
initializeClient(name) ==
  IF name \in configs THEN [threw |-> "none", client |-> name]
                       ELSE [threw |-> "Error", client |-> "none"]

\* costPer1KTokens of the three descriptors, in millionths of a dollar
costPer1KTokens(name) ==
  CASE name = "openai" -> [input |-> 500, output |-> 1500]
    [] name = "gemini" -> [input |-> 125, output |-> 375]
    [] OTHER -> [input |-> 250, output |-> 1250]

\* the fields the constructor leaves for env = {} apart from AI_PROVIDER and
\* AI_MAX_RETRIES and options = {}; temperature in thousandths
LLMVerifierFields(provider, retries) ==
  [providerConfig |-> [name |-> initializeProvider(provider, ""),
                       costPer1KTokens |->
                         costPer1KTokens(initializeProvider(provider, ""))],
   defaultModel |-> "gpt-4o-mini",
   maxRetries |-> retries,
   timeout |-> 30000,
   temperature |-> 700,
   maxTokens |-> 1000,
   criteria |-> [c \in validCategoryNames |-> FALSE]]

\* an option that is not given: undefined for a number, "" for the model
NoOption == -1
\* VerificationOptions: the per-call settings
VerificationOptions(model, temperature, maxTokens, timeout, retryAttempts) ==
  [model |-> model, temperature |-> temperature, maxTokens |-> maxTokens,
   timeout |-> timeout, retryAttempts |-> retryAttempts]
OptionValues ==
  {VerificationOptions(model, temperature, maxTokens, timeout, retryAttempts) :
     model \in {"", "gpt-4o"},
     temperature \in {NoOption, 0, 200, One},
     maxTokens \in {NoOption, 256},
     timeout \in {NoOption, 5000},
     retryAttempts \in {NoOption, 0, 1, 5}}

\* a || b on numbers: b when a is undefined or 0
OrDefault(a, b) == IF a = NoOption \/ a = 0 THEN b ELSE a

\* callLLMWithRetry(prompt, options): the settings of the provider call it
\* makes (timeout NoOption: the request carries none) and the number of
\* retries it allows
callSettings(this, options) ==
  [model |-> IF options.model # "" THEN options.model ELSE this.defaultModel,
   temperature |-> OrDefault(options.temperature, this.temperature),
   maxTokens |-> OrDefault(options.maxTokens, this.maxTokens),
   timeout |-> IF this.providerConfig.name = "openai" THEN this.timeout
                                                      ELSE NoOption,
   retries |-> this.maxRetries]

(* ------------------------------- state -------------------------------- *)
VARIABLES
  maxRetries,   \* this.maxRetries, fixed by the constructor
  sentryEnabled, \* this.sentryEnabled, fixed by the constructor
  api,          \* the public operation the caller invoked: "none" before
  n,            \* inputs.length (1 for verify)
  batchSize,    \* verifyBatch: options.batchSize || 3
  i,            \* verifyBatch: the loop variable i (0-based offset)
  bpc,          \* verifyBatch: "none", "chunk" (awaiting Promise.all),
                \*   "pacing" (awaiting sleep(1000)), "done", "threw"
  vpc,          \* per verification: "idle", "calling" (provider call in
                \*   flight), "sleeping" (backoff), "done"
  retryCount,   \* per verification: the retryCount argument
  calls,        \* per verification: provider calls issued so far
  waits,        \* per verification: the backoff sleeps so far, in ms
  hist,         \* per verification: what each provider call did
  outcome,      \* per verification: how verify() ended
  emitted,      \* per verification: what verify() wrote to the logger, to
                \*   Sentry and to the metrics sink, in order
  doneOrder,    \* verifyBatch: items of the current chunk, in completion order
  results,      \* verifyBatch: the results array
  paces,        \* verifyBatch: the rate limiting sleeps so far, in ms
  fn,           \* a function called on its own: its name ("none" before),
  arg,          \*   its argument
  ret,          \*   and what it returned or threw
  users,        \* the rows of the users table
  reg,          \* per registration request: where registerUser stands, its
                \*   validated body and its Response
  config,       \* the fields the constructor wrote, maxRetries and
                \*   sentryEnabled apart
  batchOptions, \* verifyBatch: the options object of the caller
  stats,        \* what the getStats() calls returned, in order
  tc            \* testConnection: where it stands and what it returned

verifier ==
  <<maxRetries, sentryEnabled, api, n, batchSize, i, bpc, vpc, retryCount,
    calls, waits, hist, outcome, emitted, doneOrder, results, paces>>
standalone == <<fn, arg, ret>>
registration == <<users, reg>>
configuration == <<config, batchOptions, stats, tc>>
vars == <<verifier, standalone, registration, configuration>>

NoResult == Result(FALSE, JNum(0), EmptyMap, "none")
Reply(ok, error, text) == [ok |-> ok, error |-> error, text |-> text]
Outcome(kind, result, path, error) ==
  [kind |-> kind, result |-> result, path |-> path, error |-> error]
Pending == Outcome("none", NoResult, "none", NoError)

Pow2(k) == IF k = 0 THEN 1 ELSE 2 ^ k

(* -------------------------- Call Orchestrator ------------------------- *)
\* a backoff that grows linearly: (retryCount + 1) * 1000
backoffDelayLinear(rc) == (rc + 1) * BackoffBaseMs

\* the backoff of callLLMWithRetry: Math.pow(2, retryCount) * 1000
backoffDelay(rc) == Pow2(rc) * BackoffBaseMs

\* the catch block with `retryCount <= this.maxRetries`
callCatchOffByOne(rc, error) ==
  IF rc <= maxRetries
    THEN CASE isRetryableError(error) = "true" ->
                [retry |-> TRUE, thrown |-> NoError]
           [] isRetryableError(error) = "false" ->
                [retry |-> FALSE, thrown |-> error]
           [] OTHER -> [retry |-> FALSE, thrown |-> TypeErr]
    ELSE [retry |-> FALSE, thrown |-> error]

\* the catch block of callLLMWithRetry: retry after a sleep, or throw
callCatch(rc, error) ==
  IF rc < maxRetries
    THEN CASE isRetryableError(error) = "true" ->
                [retry |-> TRUE, thrown |-> NoError]
           [] isRetryableError(error) = "false" ->
                [retry |-> FALSE, thrown |-> error]
           [] OTHER -> [retry |-> FALSE, thrown |-> TypeErr]
    ELSE [retry |-> FALSE, thrown |-> error]

\* error.code || error.status, as the pair <<code, 0>> or <<"none", status>>
codeOrStatus(error) ==
  IF error.code # "none" THEN <<error.code, 0>> ELSE <<"none", error.status>>

\* error.constructor.name
constructorName(error) == IF error.kind = "string" THEN "String" ELSE "Error"

\* handleVerificationError(error, input, options): the object literal reads
\* error.message (a TypeError on null/undefined) and calls isRetryableError
handleVerificationError(error) ==
  IF error.kind = "null" \/ isRetryableError(error) = "TypeError"
    THEN Outcome("threw", NoResult, "none", TypeErr)
    ELSE Outcome("returned",
                 [isValid |-> FALSE,
                  confidence |-> JNum(0),
                  \* `Verification failed: ${error.message}`
                  reason |-> <<"Verification failed: ", error.msg>>,
                  categories |-> EmptyMap,
                  metrics |-> [latency |-> 0, inputTokens |-> 0,
                               outputTokens |-> 0, totalTokens |-> 0,
                               cost |-> 0],
                  error |-> error.msg,
                  metadata |->
                    [errorType |-> constructorName(error),
                     errorCode |-> codeOrStatus(error),
                     retryable |-> isRetryableError(error) = "true"]],
                 "providerError", NoError)

(* --------------------------- observability ---------------------------- *)
\* One write of verify() to a collaborator other than the provider:
\* sink "logger" (this.logger, the console), "sentry" (the Sentry SDK) or
\* "metrics" (the metrics store behind AIMonitoring.logAgentMetrics).
Ev(sink, what) == [sink |-> sink, what |-> what]

\* the Sentry calls of verify() that the environment may make throw
SentryCalls == {"configureScope", "captureMessage", "captureException"}
\* a working Sentry SDK: no call throws
SentryUp == {}
\* what a failing Sentry call throws
SentryError == Err("object", "none", 0, "Sentry transport failed")

\* verify() up to its first provider call: the transaction and the start line
verifyStart ==
  <<Ev("sentry", "startTransaction"),
    Ev("logger", "info: Starting LLM verification")>>

\* logVerification(result, logger)
logVerification(result) ==
  <<Ev("logger", "info: Verification completed")>>
  \o (IF ~result.isValid
        THEN <<Ev("logger", "warn: Content verification failed")>>
        ELSE <<>>)

\* sendToSentry(result, input, options) under a Sentry SDK whose calls in
\* `sentry` throw: whether it threw, and the calls that went through
sendToSentry(sentry) ==
  IF "configureScope" \in sentry
    THEN [thrown |-> TRUE, emitted |-> <<>>]
  ELSE IF "captureMessage" \in sentry
    THEN [thrown |-> TRUE, emitted |-> <<Ev("sentry", "configureScope")>>]
  ELSE [thrown |-> FALSE,
        emitted |-> <<Ev("sentry", "configureScope"),
                      Ev("sentry", "captureMessage")>>]

\* the catch block of verify(), then its finally block
verifyCatch(error, sentry) ==
  LET errorResult == handleVerificationError(error)
      finish == <<Ev("sentry", "transaction.finish")>>
      logged == <<Ev("logger", "error: LLM verification failed")>>
  IN  IF errorResult.kind = "threw"
        THEN [outcome |-> errorResult, emitted |-> finish]
      ELSE IF sentryEnabled /\ "captureException" \in sentry
        THEN [outcome |-> Outcome("threw", NoResult, "none", SentryError),
              emitted |-> logged \o finish]
      ELSE [outcome |-> errorResult,
            emitted |->
              logged
              \o (IF sentryEnabled THEN <<Ev("sentry", "captureException")>>
                                   ELSE <<>>)
              \o <<Ev("sentry", "transaction.setStatus error")>> \o finish]

\* the try block of verify() after the provider call has returned, then its
\* catch block if sendToSentry threw, then its finally block
verifyOk(text, sentry) ==
  LET parsed == parseLLMResponse(text)
      logged == logVerification(parsed.result)
      sent == IF sentryEnabled THEN sendToSentry(sentry)
                               ELSE [thrown |-> FALSE, emitted |-> <<>>]
  IN  IF sent.thrown
        THEN LET caught == verifyCatch(SentryError, sentry)
             IN  [outcome |-> caught.outcome,
                  emitted |-> logged \o sent.emitted \o caught.emitted]
        ELSE [outcome |-> Outcome("returned", parsed.result, parsed.path, NoError),
              emitted |->
                logged \o sent.emitted
                \o <<Ev("sentry", "transaction.setStatus ok"),
                     Ev("sentry", "transaction.finish")>>]

TextsNow == IF api = "verifyBatch" THEN BatchTexts ELSE Texts
ErrorsNow == IF api = "verifyBatch" THEN BatchProviderErrors ELSE ProviderErrors

\* the state of n verifications, those of `started` with their first
\* provider call issued (verify() runs synchronously up to that call)
Launch(started) ==
  /\ vpc' = [k \in DOMAIN vpc |-> IF k \in started THEN "calling" ELSE vpc[k]]
  /\ calls' = [k \in DOMAIN calls |-> IF k \in started THEN 1 ELSE calls[k]]
  /\ emitted' = [k \in DOMAIN emitted |->
                   IF k \in started THEN verifyStart ELSE emitted[k]]

\* verify(input, options) is called
CallVerify ==
  /\ api = "none"
  /\ api' = "verify"
  /\ n' = 1
  /\ vpc' = <<"calling">>
  /\ calls' = <<1>>
  /\ retryCount' = <<0>>
  /\ waits' = << <<>> >>
  /\ hist' = << <<>> >>
  /\ outcome' = <<Pending>>
  /\ emitted' = <<verifyStart>>
  /\ UNCHANGED <<maxRetries, sentryEnabled, batchSize, i, bpc, doneOrder,
                 results, paces>>
  /\ UNCHANGED <<standalone, registration, configuration>>

\* the provider call of verification k returns text; the Sentry calls in
\* `sentry` throw
ProviderReturns(k, text, sentry) ==
  /\ vpc[k] = "calling"
  /\ hist' = [hist EXCEPT ![k] = Append(@, Reply(TRUE, NoError, text))]
  /\ outcome' = [outcome EXCEPT ![k] = verifyOk(text, sentry).outcome]
  /\ emitted' = [emitted EXCEPT ![k] = @ \o verifyOk(text, sentry).emitted]
  /\ vpc' = [vpc EXCEPT ![k] = "done"]
  /\ doneOrder' = Append(doneOrder, k)
  /\ UNCHANGED <<maxRetries, sentryEnabled, api, n, batchSize, i, bpc,
                 retryCount, calls, waits, results, paces>>
  /\ UNCHANGED <<standalone, registration, configuration>>

\* the provider call of verification k throws error; the Sentry calls in
\* `sentry` throw
ProviderFails(k, error, sentry) ==
  /\ vpc[k] = "calling"
  /\ hist' = [hist EXCEPT ![k] = Append(@, Reply(FALSE, error, EmptyText))]
  /\ LET c == callCatch(retryCount[k], error)
     IN  IF c.retry
           THEN /\ vpc' = [vpc EXCEPT ![k] = "sleeping"]
                /\ waits' = [waits EXCEPT ![k] = Append(@, backoffDelay(retryCount[k]))]
                /\ emitted' = [emitted EXCEPT ![k] =
                                 Append(@, Ev("logger", "warn: LLM call failed, retrying"))]
                /\ UNCHANGED <<outcome, doneOrder>>
           ELSE /\ vpc' = [vpc EXCEPT ![k] = "done"]
                /\ outcome' = [outcome EXCEPT ![k] = verifyCatch(c.thrown, sentry).outcome]
                /\ emitted' = [emitted EXCEPT ![k] =
                                 @ \o verifyCatch(c.thrown, sentry).emitted]
                /\ doneOrder' = Append(doneOrder, k)
                /\ UNCHANGED waits
  /\ UNCHANGED <<maxRetries, sentryEnabled, api, n, batchSize, i, bpc,
                 retryCount, calls, results, paces>>
  /\ UNCHANGED <<standalone, registration, configuration>>

\* the backoff sleep of verification k ends: callLLMWithRetry(retryCount + 1)
BackoffElapsed(k) ==
  /\ vpc[k] = "sleeping"
  /\ vpc' = [vpc EXCEPT ![k] = "calling"]
  /\ retryCount' = [retryCount EXCEPT ![k] = @ + 1]
  /\ calls' = [calls EXCEPT ![k] = @ + 1]
  /\ UNCHANGED <<maxRetries, sentryEnabled, api, n, batchSize, i, bpc, waits,
                 hist, outcome, emitted, doneOrder, results, paces>>
  /\ UNCHANGED <<standalone, registration, configuration>>

(* -------------------------- Batch Coordinator ------------------------- *)
\* Array.prototype.slice: an index below 0 counts from the end, and every
\* index is clamped to 0..len
sliceIndex(len, index) ==
  IF index < 0 THEN (IF len + index < 0 THEN 0 ELSE len + index)
               ELSE (IF index > len THEN len ELSE index)
\* array.slice(from, to) of an array of len elements, as 1-based positions
slice(len, from, to) ==
  {k \in 1..len : sliceIndex(len, from) < k /\ k <= sliceIndex(len, to)}

\* inputs.slice(iv, iv + batchSize), as the 1-based positions of the inputs
batchOf(iv) == slice(n, iv, iv + batchSize)

\* one element of batchPromises: this.verify(...).catch(error =>
\* this.handleVerificationError(error, input, options))
batchPromise(out) ==
  IF out.kind = "threw" THEN handleVerificationError(out.error) ELSE out

\* a wait that resumes as soon as one promise of the chunk is fulfilled
allSettledAny(iv) == \E k \in batchOf(iv) : vpc[k] = "done"

\* await Promise.all(batchPromises) resumes when every promise is fulfilled
allSettled(iv) == \A k \in batchOf(iv) : vpc[k] = "done"

\* results collected in the order of completion
batchResultsByCompletion(iv, order) ==
  [j \in 1..Cardinality(batchOf(iv)) |-> batchPromise(outcome[order[j]]).result]

\* the value of Promise.all(batchPromises): one result per element of the
\* chunk, in the order of the chunk; order is the order of completion
batchResults(iv, order) ==
  [j \in 1..Cardinality(batchOf(iv)) |->
     batchPromise(outcome[sliceIndex(n, iv) + j]).result]

\* a rate limiting delay after every chunk, the last one included
needsPacingAfterEveryChunk(iv) == iv < n

\* the condition of the rate limiting delay
needsPacing(iv) == iv + batchSize < n

\* the condition of the for loop
loopContinues(iv) == iv < n

\* the options object of a verifyBatch caller: batchSize 0 is absent or 0
BatchOptions(size) ==
  VerificationOptions("", NoOption, NoOption, NoOption, NoOption)
    @@ [batchSize |-> size]
\* the options of a call without an options object
NoOptions == BatchOptions(0)
\* testConnection(): pc "none" before the call, then "calling", "sleeping"
\* (backoff), "done"; result "none" until it returned or threw
ConnectionTest(pc, rc, result) == [pc |-> pc, retryCount |-> rc, result |-> result]
NoConnectionTest == ConnectionTest("none", 0, "none")

\* verifyBatch(inputs, options) is called with len inputs and
\* options.batchSize = size (0: absent or 0)
CallVerifyBatch(len, size) ==
  /\ api = "none"
  /\ len * (maxRetries + 1) <= MaxBatchCalls
  /\ api' = "verifyBatch"
  /\ n' = len
  /\ batchSize' = (IF size = 0 THEN DefaultBatchSize ELSE size)
  /\ i' = 0
  /\ bpc' = (IF len = 0 THEN "done" ELSE "chunk")
  /\ vpc' = [k \in 1..len |->
               IF k \in slice(len, 0, batchSize') THEN "calling" ELSE "idle"]
  /\ calls' = [k \in 1..len |-> IF k \in slice(len, 0, batchSize') THEN 1 ELSE 0]
  /\ retryCount' = [k \in 1..len |-> 0]
  /\ waits' = [k \in 1..len |-> <<>>]
  /\ hist' = [k \in 1..len |-> <<>>]
  /\ outcome' = [k \in 1..len |-> Pending]
  /\ emitted' = [k \in 1..len |->
                   IF k \in slice(len, 0, batchSize') THEN verifyStart ELSE <<>>]
  /\ UNCHANGED <<maxRetries, sentryEnabled, doneOrder, results, paces>>
  /\ batchOptions' = BatchOptions(size)
  /\ UNCHANGED <<standalone, registration, config, stats, tc>>

\* Promise.all of the current chunk resolves: push the results, then sleep
\* before the next chunk or leave the loop and return
ChunkSettled ==
  /\ bpc = "chunk"
  /\ allSettled(i)
  /\ IF \E k \in batchOf(i) : batchPromise(outcome[k]).kind = "threw"
       THEN /\ bpc' = "threw"
            /\ UNCHANGED <<results, i, paces>>
       ELSE /\ results' = results \o batchResults(i, doneOrder)
            /\ IF needsPacing(i)
                 THEN bpc' = "pacing" /\ i' = i /\ paces' = Append(paces, PacingMs)
                 \* no sleep: i + batchSize >= n, so the loop test fails
                 ELSE bpc' = "done" /\ i' = i + batchSize /\ UNCHANGED paces
  /\ UNCHANGED <<maxRetries, sentryEnabled, api, n, batchSize, vpc,
                 retryCount, calls, waits, hist, outcome, emitted, doneOrder>>
  /\ UNCHANGED <<standalone, registration, configuration>>

\* sleep(1000) ends: i += batchSize, then the loop test: the next chunk is
\* started, or the loop is left and the results are returned
PacingElapsed ==
  /\ bpc = "pacing"
  /\ i + batchSize >= -MaxBackward
  /\ i' = i + batchSize
  /\ bpc' = (IF loopContinues(i') THEN "chunk" ELSE "done")
  /\ Launch(batchOf(i'))
  /\ doneOrder' = <<>>
  /\ UNCHANGED <<maxRetries, sentryEnabled, api, n, batchSize, retryCount,
                 waits, hist, outcome, results, paces>>
  /\ UNCHANGED <<standalone, registration, configuration>>

InitWith(providers) ==
  /\ maxRetries \in 0..MaxRetries
  /\ sentryEnabled \in BOOLEAN
  /\ api = "none"
  /\ n = 0
  /\ batchSize = 0
  /\ i = 0
  /\ bpc = "none"
  /\ vpc = <<>>
  /\ retryCount = <<>>
  /\ calls = <<>>
  /\ waits = <<>>
  /\ hist = <<>>
  /\ outcome = <<>>
  /\ emitted = <<>>
  /\ doneOrder = <<>>
  /\ results = <<>>
  /\ paces = <<>>
  /\ fn = "none"
  /\ arg = "none"
  /\ ret = "none"
  /\ users = {}
  /\ reg = <<>>
  /\ \E provider \in providers : config = LLMVerifierFields(provider, maxRetries)
  /\ batchOptions = NoOptions
  /\ stats = <<>>
  /\ tc = NoConnectionTest

\* new LLMVerifier(env) with no AI_PROVIDER in env
Init == InitWith({""})

Next ==
  \/ CallVerify
  \/ \E len \in 0..MaxInputs : \E size \in 0..MaxBatchSize :
       CallVerifyBatch(len, size)
  \/ ChunkSettled
  \/ PacingElapsed
  \/ \E k \in DOMAIN vpc : \E text \in TextsNow :
       ProviderReturns(k, text, SentryUp)
  \/ \E k \in DOMAIN vpc : \E error \in ErrorsNow :
       ProviderFails(k, error, SentryUp)
  \/ \E k \in DOMAIN vpc : BackoffElapsed(k)

\* the verifier with working observability sinks
Spec == Init /\ [][Next]_vars

\* verifyBatch with any integer as options.batchSize
BatchNext ==
  \/ \E len \in 0..MaxInputs : \E size \in -MaxBatchSize..MaxBatchSize :
       CallVerifyBatch(len, size)
  \/ ChunkSettled
  \/ PacingElapsed
  \/ \E k \in DOMAIN vpc : \E text \in TextsNow :
       ProviderReturns(k, text, SentryUp)
  \/ \E k \in DOMAIN vpc : \E error \in ErrorsNow :
       ProviderFails(k, error, SentryUp)
  \/ \E k \in DOMAIN vpc : BackoffElapsed(k)

\* every provider call settles, every sleep ends and every continuation that
\* is ready is run by the event loop
BatchSpec == Init /\ [][BatchNext]_vars /\ WF_vars(BatchNext)

\* one verify() whose Sentry calls may throw
SinkNext ==
  \/ CallVerify
  \/ \E k \in DOMAIN vpc : \E text \in Texts : \E sentry \in SUBSET SentryCalls :
       ProviderReturns(k, text, sentry)
  \/ \E k \in DOMAIN vpc : \E error \in ProviderErrors :
       \E sentry \in SUBSET SentryCalls : ProviderFails(k, error, sentry)
  \/ \E k \in DOMAIN vpc : BackoffElapsed(k)

\* the verifier with observability sinks that may fail
SinkSpec == Init /\ [][SinkNext]_vars

(* ---------------------- getStats and testConnection ------------------- *)
\* getStats() calls explored in one run
MaxStatsCalls == 2
\* largest inputs.length, options.batchSize and this.maxRetries explored
\* beside them
MaxConfigInputs == 2
MaxConfigBatchSize == 1
MaxConfigRetries == 1

\* getStats() that reports the retries left to the running call in place of
\* this.maxRetries
getStatsRetriesLeft ==
  [provider |-> config.providerConfig.name,
   defaultModel |-> config.defaultModel,
   maxRetries |-> maxRetries - (IF tc.pc # "none" THEN tc.retryCount
                                ELSE IF vpc # <<>> THEN retryCount[1] ELSE 0),
   timeout |-> config.timeout,
   temperature |-> config.temperature,
   maxTokens |-> config.maxTokens,
   criteria |-> config.criteria,
   sentryEnabled |-> sentryEnabled,
   costPer1KTokens |-> config.providerConfig.costPer1KTokens]

\* getStats(): the object it returns
getStats ==
  [provider |-> config.providerConfig.name,
   defaultModel |-> config.defaultModel,
   maxRetries |-> maxRetries,
   timeout |-> config.timeout,
   temperature |-> config.temperature,
   maxTokens |-> config.maxTokens,
   criteria |-> config.criteria,
   sentryEnabled |-> sentryEnabled,
   costPer1KTokens |-> config.providerConfig.costPer1KTokens]

\* getStats() is called, at any moment
GetStats ==
  /\ Len(stats) < MaxStatsCalls
  /\ stats' = Append(stats, getStats)
  /\ UNCHANGED <<config, batchOptions, tc>>
  /\ UNCHANGED <<verifier, standalone, registration>>

\* testConnection() is called: callLLMWithRetry(testPrompt, {})
TestConnection ==
  /\ api = "none"
  /\ api' = "testConnection"
  /\ tc' = ConnectionTest("calling", 0, "none")
  /\ UNCHANGED <<maxRetries, sentryEnabled, n, batchSize, i, bpc, vpc,
                 retryCount, calls, waits, hist, outcome, emitted, doneOrder,
                 results, paces>>
  /\ UNCHANGED <<config, batchOptions, stats>>
  /\ UNCHANGED <<standalone, registration>>

\* responseText.includes('OK') || responseText.includes('ok'); the words of
\* a text are kept in lower case
isOk(text) == \E word \in text.words : WordIncludes(word, "ok")

\* the provider call of testConnection() returns text
TestProviderReturns(text) ==
  /\ tc.pc = "calling"
  /\ tc' = ConnectionTest("done", tc.retryCount,
                          IF isOk(text) THEN "true" ELSE "false")
  /\ UNCHANGED <<config, batchOptions, stats>>
  /\ UNCHANGED <<verifier, standalone, registration>>

\* the provider call of testConnection() throws error: the retry of
\* callLLMWithRetry, or the catch block of testConnection, whose
\* `error.message` throws a TypeError for null
TestProviderFails(error) ==
  /\ tc.pc = "calling"
  /\ LET c == callCatch(tc.retryCount, error)
     IN  tc' = IF c.retry
                 THEN ConnectionTest("sleeping", tc.retryCount, "none")
                 ELSE ConnectionTest("done", tc.retryCount,
                                     IF c.thrown.kind = "null" THEN "TypeError"
                                                               ELSE "false")
  /\ UNCHANGED <<config, batchOptions, stats>>
  /\ UNCHANGED <<verifier, standalone, registration>>

\* the backoff sleep of testConnection() ends
TestBackoffElapsed ==
  /\ tc.pc = "sleeping"
  /\ tc' = ConnectionTest("calling", tc.retryCount + 1, "none")
  /\ UNCHANGED <<config, batchOptions, stats>>
  /\ UNCHANGED <<verifier, standalone, registration>>

ConfigNext ==
  \/ CallVerify
  \/ \E len \in 0..MaxConfigInputs : \E size \in 1..MaxConfigBatchSize :
       CallVerifyBatch(len, size)
  \/ ChunkSettled
  \/ PacingElapsed
  \/ \E k \in DOMAIN vpc : \E text \in TextsNow :
       ProviderReturns(k, text, SentryUp)
  \/ \E k \in DOMAIN vpc : \E error \in ErrorsNow :
       ProviderFails(k, error, SentryUp)
  \/ \E k \in DOMAIN vpc : BackoffElapsed(k)
  \/ TestConnection
  \/ \E text \in Texts : TestProviderReturns(text)
  \/ \E error \in ProviderErrors : TestProviderFails(error)
  \/ TestBackoffElapsed
  \/ GetStats

\* verifiers constructed for each provider name
ConfigInit == InitWith(ProviderNames) /\ maxRetries <= MaxConfigRetries

\* one verifier on which verify(), verifyBatch() or testConnection() runs
\* while getStats() is called
ConfigSpec == ConfigInit /\ [][ConfigNext]_vars

(* ------------------- functions called on their own -------------------- *)
\* the values isRetryableError is called with: null/undefined, a primitive
\* string, and objects over the fields it reads
ErrorCodes == {"none", "ECONNRESET", "ETIMEDOUT", "ECONNREFUSED", "ENOTFOUND", "EPIPE"}
ErrorStatuses == {0, 400, 401, 403, 404, 408, 429, 500, 502, 503, 504}
ErrorMessages ==
  {"none", "nonstring", "bad response", "rate limit exceeded",
   "too many requests, slow down", "quota exceeded for this key",
   "request timed out", "timeout of 30000ms exceeded"}
ErrorValues ==
  {ThrownNull, ThrownString}
  \cup {Err("object", c, st, m) : c \in ErrorCodes, st \in ErrorStatuses,
                                   m \in ErrorMessages}

\* isRetryableError(error) is called
CallIsRetryableError(error) ==
  /\ fn = "none"
  /\ fn' = "isRetryableError"
  /\ arg' = error
  /\ ret' = isRetryableError(error)
  /\ UNCHANGED <<verifier, registration, configuration>>

\* new LLMVerifier(env, {provider}) with env.AI_PROVIDER = envProvider
CallConstructor(envProvider, provider) ==
  /\ fn = "none"
  /\ fn' = "constructor"
  /\ arg' = [envProvider |-> envProvider, provider |-> provider]
  /\ ret' = initializeClient(initializeProvider(envProvider, provider))
  /\ UNCHANGED <<verifier, registration, configuration>>

\* the finite scores >= 0 normalizeScore is called with, in thousandths
Scores == (0..MaxFineScore) \cup {w * One : w \in 0..MaxWholeScore}

\* normalizeScore(score) is called
CallNormalizeScore(score) ==
  /\ fn = "none"
  /\ fn' = "normalizeScore"
  /\ arg' = JNum(score)
  /\ ret' = normalizeScore(JNum(score))
  /\ UNCHANGED <<verifier, registration, configuration>>

\* replies that match the documented output schema: isValid a boolean,
\* confidence in [0, 1], all seven categories with a boolean passed, a score
\* in [0, 1] and a string explanation ("" is the empty string)
SchemaConfidences == {0, 250, 900, One}
SchemaScores == {0, 300, One}
SchemaExplanations == {"", "details"}
SchemaEntries ==
  {CatEntry(TRUE, JBool(passed), JNum(score), explanation) :
     passed \in BOOLEAN, score \in SchemaScores,
     explanation \in SchemaExplanations}
SchemaTexts ==
  {Text("json",
        Data(TRUE, JBool(isValid), JNum(confidence),
             [c \in validCategoryNames |->
                IF c = "toxicity" THEN first ELSE others]),
        {}, -1, 0, 0) :
     isValid \in BOOLEAN, confidence \in SchemaConfidences,
     first \in SchemaEntries, others \in SchemaEntries}

\* texts without JSON: no braces ("free") or a brace span that does not
\* parse even after the repairs ("broken"), over the words below, with or
\* without a number after "confidence", with or without hedge words
ProseWords == {"isvalid", "looks", "invalid", "failed", "passed", "fine"}
ProseConfidences == {-1, 0, 900, 95 * One}
ProseTexts ==
  {Text(form, NoData, words, conf, hedges[1], hedges[2]) :
     form \in {"free", "broken"}, words \in SUBSET ProseWords,
     conf \in ProseConfidences,
     hedges \in {<<0, 0>>, <<1, 0>>, <<0, 1>>, <<2, 1>>}}

\* what a reply may put in a category's score field: nothing, null, numbers
\* on any scale, negative numbers, numeric strings ("0.9", "1.5"), "85%",
\* a word, a boolean, an object
ScoreValues ==
  {Absent, JNull, JText, JOther, JBool(TRUE), JBool(FALSE),
   JNumStr(900), JNumStr(1500), JPrefixStr(85 * One)}
  \cup {JNum(x) : x \in {-500, 0, 300, One, 4 * One, 8 * One, 85 * One}}
\* replies whose toxicity entry carries such a score
ScoreTexts ==
  {Text("json",
        Data(TRUE, JBool(TRUE), score,
             [c \in {"toxicity"} |->
                CatEntry(TRUE, JBool(TRUE), score, "details")]),
        {}, -1, 0, 0) : score \in ScoreValues}

\* the output texts parseLLMResponse is called with
ParserTexts == Texts \cup SchemaTexts \cup ProseTexts \cup ScoreTexts

\* parseLLMResponse(response, originalInput) is called
CallParseLLMResponse(text) ==
  /\ fn = "none"
  /\ fn' = "parseLLMResponse"
  /\ arg' = text
  /\ ret' = parseLLMResponse(text)
  /\ UNCHANGED <<verifier, registration, configuration>>

(* ------------------------ utils/crypto: JWT --------------------------- *)
\* the longest clock reading, in half hours
MaxClock == 50
\* half an hour in seconds: the test's token expired 30 minutes ago
ClockStep == 1800
\* Math.floor(Date.now() / 1000): the half hours and the second after each
Times == {k * ClockStep + d : k \in 0..MaxClock, d \in {0, 1}}
\* a field that the payload does not have
NoTime == -1

\* the header generateJWT signs
JwtHeader == [alg |-> "HS256", typ |-> "JWT"]
\* base64UrlEncode(str) and base64UrlDecode(str): the encoded text is not the
\* text, and decoding gives the text back
base64UrlEncode(str) == [b64url |-> str]
base64UrlDecode(str) == str.b64url
\* createHMAC(data, secret): HMAC-SHA256 as a function without collisions
createHMAC(data, secret) == [hmac |-> data, key |-> secret]
\* a signature part that no secret produced (the test's 'mocked-signature')
MockedSignature == [hmac |-> <<>>, key |-> "mocked-signature"]

\* a JwtPayload; type "none", iat and exp NoTime when the field is absent
JwtPayload(sub, type, iat, exp) ==
  [sub |-> sub, type |-> type, iat |-> iat, exp |-> exp]
\* what an async function of this module settles with
Returned(value) == [threw |-> "none", value |-> value]
Threw(message) == [threw |-> message, value |-> "none"]

\* generateJWT(payload, secret) at clock reading now: iat and exp are written
\* after the spread of payload
generateJWT(payload, secret, now) ==
  LET encodedHeader == base64UrlEncode(JwtHeader)
      encodedPayload ==
        base64UrlEncode([payload EXCEPT !.iat = now,
                                        !.exp = now + 24 * 60 * 60])
      signature == createHMAC(<<encodedHeader, encodedPayload>>, secret)
  IN  <<encodedHeader, encodedPayload, signature>>

\* verifyJWT(token, secret) at clock reading now; `payload.exp &&` is false
\* for an absent exp and for exp 0
verifyJWT(token, secret, now) ==
  IF Len(token) # 3 THEN Threw("Invalid JWT token")
  ELSE IF token[3] # createHMAC(<<token[1], token[2]>>, secret)
    THEN Threw("Invalid JWT signature")
  ELSE
    LET payload == base64UrlDecode(token[2])
    IN  IF payload.exp # NoTime /\ payload.exp # 0 /\ payload.exp < now
          THEN Threw("JWT token expired")
          ELSE Returned(payload)

\* the secrets: the server's and another one
Secrets == {"jwt-secret", "wrong-secret"}
\* the clock readings at which tokens are issued or stamped
IssueTimes == {0, ClockStep, 2 * ClockStep}
\* hand-made payloads, as the test builds them: any exp, or none
HandMadePayloads ==
  {JwtPayload(sub, "none", iat, exp) :
     sub \in {"123"}, iat \in {NoTime, 0}, exp \in {NoTime} \cup IssueTimes}
\* tokens: generated with either secret, hand-made with a signature of either
\* secret or a mocked one, and a token of two parts
Tokens ==
  {generateJWT(JwtPayload("123", "none", NoTime, NoTime), s, t) :
     s \in Secrets, t \in IssueTimes}
  \cup {<<base64UrlEncode(JwtHeader), base64UrlEncode(p),
          createHMAC(<<base64UrlEncode(JwtHeader), base64UrlEncode(p)>>, s)>> :
          p \in HandMadePayloads, s \in Secrets}
  \cup {<<base64UrlEncode(JwtHeader), base64UrlEncode(p), MockedSignature>> :
          p \in HandMadePayloads}
  \cup {<<base64UrlEncode(JwtHeader), MockedSignature>>}

\* the clock readings at which verifyJWT is called on these tokens
VerifyTimes == {t \in Times : t <= 3 * ClockStep + 1}

\* verifyJWT(token, secret) is called at clock reading now
CallVerifyJWT(token, secret, now) ==
  /\ fn = "none"
  /\ fn' = "verifyJWT"
  /\ arg' = [token |-> token, secret |-> secret, now |-> now]
  /\ ret' = verifyJWT(token, secret, now)
  /\ UNCHANGED <<verifier, registration, configuration>>

\* generatePasswordResetToken(userId, secret) at clock reading now
generatePasswordResetToken(userId, secret, now) ==
  generateJWT(JwtPayload(userId, "password_reset", now, now + 3600),
              secret, now)

\* verifyPasswordResetToken(token, secret) at clock reading now
verifyPasswordResetToken(token, secret, now) ==
  LET verified == verifyJWT(token, secret, now)
  IN  IF verified.threw # "none" THEN verified
      ELSE IF verified.value.type # "password_reset"
        THEN Threw("Invalid token type")
      ELSE Returned(verified.value.sub)

\* the users a reset token is issued for
UserIds == {"123", "456"}

\* generatePasswordResetToken(userId, secret) is called at clock reading
\* issued and verifyPasswordResetToken(token, secret) on its token at now
CallPasswordReset(userId, secret, issued, now) ==
  /\ fn = "none"
  /\ issued <= now
  /\ fn' = "verifyPasswordResetToken"
  /\ arg' = [token |-> generatePasswordResetToken(userId, secret, issued),
             secret |-> secret, now |-> now,
             userId |-> userId, issued |-> issued]
  /\ ret' = verifyPasswordResetToken(arg'.token, secret, now)
  /\ UNCHANGED <<verifier, registration, configuration>>

\* verifyPasswordResetToken(token, secret) is called on a token that
\* generatePasswordResetToken did not issue
CallVerifyPasswordResetToken(token, secret, now) ==
  /\ fn = "none"
  /\ fn' = "verifyPasswordResetToken"
  /\ arg' = [token |-> token, secret |-> secret, now |-> now,
             userId |-> "none", issued |-> NoTime]
  /\ ret' = verifyPasswordResetToken(token, secret, now)
  /\ UNCHANGED <<verifier, registration, configuration>>

\* callLLMWithRetry(prompt, options) is called on a verifier constructed for
\* provider with AI_MAX_RETRIES = retries
CallLLMWithRetry(provider, retries, options) ==
  /\ fn = "none"
  /\ fn' = "callLLMWithRetry"
  /\ arg' = [this |-> LLMVerifierFields(provider, retries), options |-> options]
  /\ ret' = callSettings(arg'.this, options)
  /\ UNCHANGED <<verifier, registration, configuration>>

(* --------------------------- services/ai: callAI ---------------------- *)
\* request.provider (the type allows three; any string can arrive) and
\* request.model ("" when absent)
AIProviders == {"gemini", "openai", "huggingface", "ollama"}
AIModels == {"", "custom-model"}
AIRequest(provider, model) == [provider |-> provider, model |-> model]
\* env: whether GEMINI_API_KEY and OPENAI_API_KEY are configured
AIEnv(gemini, openai) == [GEMINI_API_KEY |-> gemini, OPENAI_API_KEY |-> openai]
\* what the fetch of a provider does: a completion, a response that is not
\* ok, a body without text, or a rejected fetch
FetchOutcomes == {"completion", "not ok", "no text", "rejected"}

\* callGemini(request, env) and callOpenAI(request, env): name is "Gemini"
\* or "OpenAI"
callProvider(name, key, model, fetched) ==
  IF ~key THEN Threw(<<name, "API key not configured">>)
  ELSE CASE fetched = "completion" -> Returned([text |-> "text", model |-> model])
         [] fetched = "not ok" -> Threw(<<name, "API error">>)
         [] fetched = "no text" -> Threw(<<"No response from", name>>)
         [] OTHER -> Threw(<<name, "fetch failed">>)

\* what callAI settles with and the provider functions it called, in order
AISettled(settled, called) == [settled |-> settled, called |-> called]

\* the try block of callAI
callAITry(request, env, fetched) ==
  CASE request.provider = "gemini" ->
         AISettled(callProvider("Gemini", env.GEMINI_API_KEY,
                                IF request.model = "" THEN "gemini-2.0-flash"
                                                      ELSE request.model,
                                fetched.gemini),
                   <<"gemini">>)
    [] request.provider = "openai" ->
         AISettled(callProvider("OpenAI", env.OPENAI_API_KEY,
                                IF request.model = "" THEN "gpt-3.5-turbo"
                                                      ELSE request.model,
                                fetched.openai),
                   <<"openai">>)
    [] request.provider = "huggingface" ->
         AISettled(Threw(<<"HuggingFace", "not implemented yet">>), <<>>)
    [] OTHER ->
         AISettled(Threw(<<"Unsupported provider", request.provider>>), <<>>)

\* callAI that falls back to OpenAI whether or not its key is configured
RECURSIVE callAIWithoutKeyTest(_, _, _)
callAIWithoutKeyTest(request, env, fetched) ==
  LET tried == callAITry(request, env, fetched)
  IN  IF tried.settled.threw = "none"
        THEN AISettled(Returned(tried.settled.value @@
                                [provider |-> request.provider]),
                       tried.called)
      ELSE IF request.provider = "gemini"
        THEN LET fallback ==
                   callAIWithoutKeyTest([request EXCEPT !.provider = "openai"],
                                        env, fetched)
             IN  AISettled(fallback.settled, tried.called \o fallback.called)
      ELSE tried

\* callAI(request, env); fetched.gemini and fetched.openai are what the
\* fetches do
RECURSIVE callAI(_, _, _)
callAI(request, env, fetched) ==
  LET tried == callAITry(request, env, fetched)
  IN  IF tried.settled.threw = "none"
        THEN AISettled(Returned(tried.settled.value @@
                                [provider |-> request.provider]),
                       tried.called)
      ELSE IF request.provider = "gemini" /\ env.OPENAI_API_KEY
        THEN LET fallback ==
                   callAI([request EXCEPT !.provider = "openai"], env, fetched)
             IN  AISettled(fallback.settled, tried.called \o fallback.called)
      ELSE tried

\* callAI(request, env) is called
CallAI(request, env, fetched) ==
  /\ fn = "none"
  /\ fn' = "callAI"
  /\ arg' = [request |-> request, env |-> env, fetched |-> fetched]
  /\ ret' = callAI(request, env, fetched)
  /\ UNCHANGED <<verifier, registration, configuration>>

StandaloneNext ==
  \/ \E error \in ErrorValues : CallIsRetryableError(error)
  \/ \E text \in ParserTexts : CallParseLLMResponse(text)
  \/ \E score \in Scores : CallNormalizeScore(score)
  \/ \E provider \in configs, retries \in {0, MaxRetries},
        options \in OptionValues :
       CallLLMWithRetry(provider, retries, options)
  \/ \E provider \in AIProviders, model \in AIModels,
        gemini, openai \in BOOLEAN, g, o \in FetchOutcomes :
       CallAI(AIRequest(provider, model), AIEnv(gemini, openai),
              [gemini |-> g, openai |-> o])
  \/ \E token \in Tokens, secret \in Secrets, now \in VerifyTimes :
       CallVerifyJWT(token, secret, now)
  \/ \E userId \in UserIds, secret \in Secrets,
        issued \in IssueTimes, now \in Times :
       CallPasswordReset(userId, secret, issued, now)
  \/ \E token \in Tokens, secret \in Secrets, now \in VerifyTimes :
       CallVerifyPasswordResetToken(token, secret, now)
  \/ \E envProvider, provider \in ProviderNames :
       CallConstructor(envProvider, provider)

\* no verification runs beside the call
StandaloneInit == Init /\ maxRetries = 0 /\ ~sentryEnabled

\* the exported functions, each called once on an input of its domain
StandaloneSpec == StandaloneInit /\ [][StandaloneNext]_vars

(* ---------------------- handlers/auth: registerUser ------------------- *)
\* registration requests explored
MaxRequests == 3
\* the validated bodies: data.email and data.username
Emails == {"test@example.com", "other@example.com"}
Usernames == {"testuser", "anotheruser"}

\* a row of the users table
UserRow(id, email, username) ==
  [id |-> id, email |-> email, username |-> username]
\* the Response of the handler: status 0 while it runs
Response(status, error) == [status |-> status, error |-> error]
NoResponse == Response(0, "none")

\* the UNIQUE and PRIMARY KEY constraints of CREATE TABLE users: whether the
\* INSERT of row is refused
uniqueViolated(row) ==
  \E u \in users :
    u.id = row.id \/ u.email = row.email \/ u.username = row.username

\* registerUser(request, env) is entered and sends
\* SELECT id FROM users WHERE email = ?
RegisterUser(email, username) ==
  /\ Len(reg) < MaxRequests
  /\ reg' = Append(reg, [pc |-> "selectEmail", email |-> email,
                         username |-> username, response |-> NoResponse])
  /\ UNCHANGED users
  /\ UNCHANGED <<verifier, standalone, configuration>>

\* the database answers the email SELECT: 409, or the handler goes on to
\* SELECT id FROM users WHERE username = ?
EmailSelected(r) ==
  /\ reg[r].pc = "selectEmail"
  /\ IF \E u \in users : u.email = reg[r].email
       THEN reg' = [reg EXCEPT ![r].pc = "done",
                      ![r].response = Response(409, "Email already registered")]
       ELSE reg' = [reg EXCEPT ![r].pc = "selectUsername"]
  /\ UNCHANGED users
  /\ UNCHANGED <<verifier, standalone, configuration>>

\* the database answers the username SELECT: 409, or the handler hashes the
\* password, draws crypto.randomUUID() and sends the INSERT
UsernameSelected(r) ==
  /\ reg[r].pc = "selectUsername"
  /\ IF \E u \in users : u.username = reg[r].username
       THEN reg' = [reg EXCEPT ![r].pc = "done",
                      ![r].response = Response(409, "Username already taken")]
       ELSE reg' = [reg EXCEPT ![r].pc = "insert"]
  /\ UNCHANGED users
  /\ UNCHANGED <<verifier, standalone, configuration>>

\* the database runs the INSERT: a refused INSERT rejects run(), which the
\* catch block answers with 500; otherwise the row is stored and the handler
\* signs the token and sends SELECT ... FROM users WHERE id = ?
UserInserted(r) ==
  /\ reg[r].pc = "insert"
  /\ LET row == UserRow(r, reg[r].email, reg[r].username)
     IN  IF uniqueViolated(row)
           THEN /\ reg' = [reg EXCEPT ![r].pc = "done",
                             ![r].response = Response(500, "Registration failed")]
                /\ UNCHANGED users
           ELSE /\ users' = users \cup {row}
                /\ reg' = [reg EXCEPT ![r].pc = "selectCreated"]
  /\ UNCHANGED <<verifier, standalone, configuration>>

\* the database answers the SELECT of the created user: 201
CreatedSelected(r) ==
  /\ reg[r].pc = "selectCreated"
  /\ reg' = [reg EXCEPT ![r].pc = "done", ![r].response = Response(201, "none")]
  /\ UNCHANGED users
  /\ UNCHANGED <<verifier, standalone, configuration>>

RegistrationNext ==
  \/ \E email \in Emails, username \in Usernames : RegisterUser(email, username)
  \/ \E r \in DOMAIN reg : EmailSelected(r)
  \/ \E r \in DOMAIN reg : UsernameSelected(r)
  \/ \E r \in DOMAIN reg : UserInserted(r)
  \/ \E r \in DOMAIN reg : CreatedSelected(r)

\* POST /auth/register requests, served concurrently on one database
RegistrationSpec == StandaloneInit /\ [][RegistrationNext]_vars

(* =============================== claims =============================== *)
Verifications == DOMAIN vpc
Finished(k) == vpc[k] = "done"
FirstReply(k) == hist[k][1]
LastReply(k) == hist[k][Len(hist[k])]
\* every provider call of verification k so far failed with an error the
\* Retry Classifier accepts
AllRetryable(k) ==
  \A j \in 1..Len(hist[k]) :
    ~hist[k][j].ok /\ isRetryableError(hist[k][j].error) = "true"
\* verify() returned the result of its catch block
DoneError(k) ==
  /\ outcome[k].kind = "returned"
  /\ outcome[k].path = "providerError"
  /\ ~outcome[k].result.isValid
  /\ outcome[k].result.confidence = JNum(0)
ErrorSet(r) == r.error # "none"

\* C1: verify() never throws, whatever the provider call does (return any
\* text, fail with a retryable or a non-retryable error, throw any value):
\* every finished verification has returned a result.
C1_VerifyIsTotal ==
  \A k \in Verifications : Finished(k) => outcome[k].kind = "returned"

\* C2: when every provider call of a verification failed with a retryable
\* error, the verification has made exactly maxRetries + 1 calls when it
\* ends, and it ends with a returned DoneError result (isValid = false,
\* confidence = 0, error set); once it has ended no further call is made.
C2_State ==
  \A k \in Verifications :
    Finished(k) /\ AllRetryable(k) =>
      /\ calls[k] = maxRetries + 1
      /\ Len(hist[k]) = maxRetries + 1
      /\ DoneError(k)
      /\ ErrorSet(outcome[k].result)
C2_Step ==
  \A k \in Verifications :
    Finished(k) => /\ k \in DOMAIN vpc'
                   /\ vpc'[k] = "done"
                   /\ calls'[k] = calls[k]
                   /\ outcome'[k] = outcome[k]
C3_BackoffSchedule ==
  \A k \in Verifications :
    /\ \A j \in 1..Len(waits[k]) : waits[k][j] = BackoffBaseMs * Pow2(j - 1)
    /\ vpc[k] = "sleeping" => calls[k] = Len(waits[k])
    /\ vpc[k] \in {"calling", "done"} => calls[k] = Len(waits[k]) + 1
    /\ ( /\ Finished(k)
         /\ Len(hist[k]) = 3
         /\ hist[k][1] = Reply(FALSE, Http429, EmptyText)
         /\ hist[k][2] = Reply(FALSE, Http429, EmptyText)
         /\ hist[k][3].ok )
       => /\ calls[k] = 3
          /\ waits[k] = <<1000, 2000>>
          /\ outcome[k].kind = "returned"
          /\ outcome[k].path # "providerError"
\* 429, 429, then the well-formed reply; and a third wait of 4s elsewhere
C3_Witness ==
  \E k \in Verifications :
    /\ Finished(k)
    /\ hist[k] = <<Reply(FALSE, Http429, EmptyText),
                   Reply(FALSE, Http429, EmptyText),
                   Reply(TRUE, NoError, WellFormedText)>>
    /\ waits[k] = <<1000, 2000>>

\* C4: when the first provider call of a verification fails with an error
\* the Retry Classifier rejects, that call is the only one, no backoff wait
\* happens, and verify() returns a DoneError result.
C4_NonRetryable ==
  \A k \in Verifications :
    ( /\ Len(hist[k]) >= 1
      /\ ~FirstReply(k).ok
      /\ isRetryableError(FirstReply(k).error) = "false" )
    => /\ Finished(k)
       /\ calls[k] = 1
       /\ waits[k] = <<>>
       /\ DoneError(k)

\* C5: once a provider call of a verification has returned, no further call
\* is made, and the verification ends on the try path of verify() with a
\* result that has no error field, whatever the text was.
C5_ParserNeverFails ==
  \A k \in Verifications :
    (Len(hist[k]) >= 1 /\ LastReply(k).ok)
    => /\ Finished(k)
       /\ calls[k] = Len(hist[k])
       /\ outcome[k].kind = "returned"
       /\ outcome[k].path \in {"structured", "freetext"}
       /\ ~ErrorSet(outcome[k].result)

\* C6 as claimed: on every path of verify() the categories map of the
\* returned result contains all seven canonical keys.
C6_SevenKeysEverywhere ==
  \A k \in Verifications :
    Finished(k) /\ outcome[k].kind = "returned" =>
      validCategoryNames \subseteq DOMAIN outcome[k].result.categories

\* C6 as amended: the categories map of a returned result has exactly the
\* seven canonical keys when JSON was extracted and validated (structured
\* path), and is empty on the free-text fallback, after a parse error and
\* after a provider failure.
C6_SevenKeysWhenStructured ==
  \A k \in Verifications :
    Finished(k) /\ outcome[k].kind = "returned" =>
      /\ outcome[k].path \in
           {"structured", "freetext", "parseError", "providerError"}
      /\ outcome[k].path = "structured" =>
           DOMAIN outcome[k].result.categories = validCategoryNames
      /\ outcome[k].path # "structured" =>
           DOMAIN outcome[k].result.categories = {}
\* a reply that populated only toxicity (and an unknown category) was parsed
C6_Witness ==
  \E k \in Verifications :
    /\ Finished(k)
    /\ LastReply(k) = Reply(TRUE, NoError, OnlyToxicityText)
    /\ outcome[k].path = "structured"
    /\ DOMAIN outcome[k].result.categories = validCategoryNames

\* C7: on every path of verify() the confidence of the returned result is a
\* number between 0 and 1 (0 and 1000 thousandths).
C7_BoundedConfidence ==
  \A k \in Verifications :
    Finished(k) /\ outcome[k].kind = "returned" =>
      /\ outcome[k].result.confidence.t = "num"
      /\ outcome[k].result.confidence.n >= 0
      /\ outcome[k].result.confidence.n <= One
\* a reply that reported confidence 85 was parsed
C7_Witness ==
  \E k \in Verifications :
    /\ Finished(k)
    /\ LastReply(k).ok
    /\ LastReply(k).text.data.confidence = JNum(85 * One)
    /\ outcome[k].path = "structured"

\* the result that ends up in the slot of input k: that of verify(), or
\* the conversion of its exception at the per-item boundary
ItemResult(k) == batchPromise(outcome[k]).result
ChunkIndex(k) == (k - 1) \div batchSize
InFlight == {k \in Verifications : vpc[k] \in {"calling", "sleeping"}}
Started == {k \in Verifications : vpc[k] # "idle"}

\* C8: the list verifyBatch returns has the length of the input list and
\* its k-th element is the result of verifying the k-th input, whatever the
\* order in which the verifications completed.
C8_BatchShapeAndOrder ==
  (api = "verifyBatch" /\ bpc = "done") =>
    /\ Len(results) = n
    /\ \A k \in 1..n : Finished(k) /\ results[k] = ItemResult(k)
\* a returned batch of three whose first chunk completed out of input order
\* with different results
C8_Witness ==
  /\ api = "verifyBatch" /\ bpc = "done" /\ n = 3
  /\ \E a, b \in 1..Len(doneOrder) :
       a < b /\ doneOrder[a] > doneOrder[b]
             /\ results[doneOrder[a]] # results[doneOrder[b]]

\* C9: verifyBatch never throws; when it has returned, the slot of every
\* item whose verification failed terminally (its last provider call
\* failed) holds isValid = false, confidence = 0 and an error, and every
\* slot holds what the verification of its own input produced.
C9_BatchItemIsolation ==
  /\ bpc # "threw"
  /\ (api = "verifyBatch" /\ bpc = "done") =>
       \A k \in 1..n :
         /\ results[k] = ItemResult(k)
         /\ ~LastReply(k).ok =>
              /\ ~results[k].isValid
              /\ results[k].confidence = JNum(0)
              /\ ErrorSet(results[k])

\* C10: verifyBatch works through consecutive chunks of batchSize inputs:
\* at most batchSize verifications are in flight, all in flight belong to
\* one chunk, and a verification is started only when every verification
\* of the earlier chunks has completed.
C10_BatchChunking ==
  api = "verifyBatch" =>
    /\ Cardinality(InFlight) <= batchSize
    /\ \A a, b \in InFlight : ChunkIndex(a) = ChunkIndex(b)
    /\ \A a \in Started : \A b \in Verifications :
         ChunkIndex(b) < ChunkIndex(a) => vpc[b] = "done"
    /\ \A a \in Started : \A b \in Verifications :
         ChunkIndex(b) = ChunkIndex(a) => b \in Started
\* the second chunk is in flight, two verifications at once
C10_Witness ==
  /\ api = "verifyBatch"
  /\ Cardinality(InFlight) = 2
  /\ \A k \in InFlight : ChunkIndex(k) = 1

\* ceil(n / batchSize), the number of chunks of the batch
Chunks == (n + batchSize - 1) \div batchSize

\* C11: verifyBatch sleeps exactly once, for 1s, between the completion of
\* a chunk and the start of the next: while chunk c (0-based) runs, c sleeps
\* have been started; a sleep runs only when every verification of the
\* chunks so far has completed, none is in flight and inputs remain; and a
\* batch of n > 0 inputs that has returned performed ceil(n / batchSize) - 1
\* sleeps, none after its last chunk.
C11_BatchPacing ==
  api = "verifyBatch" =>
    /\ \A j \in 1..Len(paces) : paces[j] = 1000
    /\ bpc \in {"chunk", "threw"} => Len(paces) = i \div batchSize
    /\ bpc = "pacing" =>
         /\ Len(paces) = i \div batchSize + 1
         /\ InFlight = {}
         /\ \A k \in Started : vpc[k] = "done"
         /\ Started # Verifications
    /\ (bpc = "done" /\ n > 0) =>
         /\ Len(paces) = Chunks - 1
         /\ Started = Verifications
\* a batch of three inputs with chunk size 1 has returned after two sleeps
C11_Witness ==
  /\ api = "verifyBatch" /\ bpc = "done"
  /\ n = 3 /\ batchSize = 1
  /\ paces = <<1000, 1000>>

\* the writes of verification k to a sink
Writes(k, sink) == {j \in 1..Len(emitted[k]) : emitted[k][j].sink = sink}

\* C12: every verify() that has returned a result, after a provider reply
\* or after a provider failure, has written its outcome to the metrics sink
\* exactly once, with Sentry reporting enabled or not.
C12_OutcomeReportedOnce ==
  \A k \in Verifications :
    Finished(k) /\ outcome[k].kind = "returned" =>
      Cardinality(Writes(k, "metrics")) = 1

\* how verification k ends when every Sentry call goes through
OutcomeWithSinksUp(k) ==
  IF LastReply(k).ok
    THEN verifyOk(LastReply(k).text, SentryUp).outcome
    ELSE verifyCatch(callCatch(retryCount[k], LastReply(k).error).thrown,
                     SentryUp).outcome

\* C13: a Sentry call that throws during verify() (configureScope,
\* captureMessage, captureException) changes nothing for the caller: every
\* finished verification ended exactly as it ends when the Sentry calls go
\* through, so no exception of Sentry leaves verify() and a result of the
\* try path is not replaced by an error result.
C13_SinkFailuresContained ==
  \A k \in Verifications : Finished(k) => outcome[k] = OutcomeWithSinksUp(k)

\* the three conditions of the Retry Classifier
HasTransportCode(e) == e.code \in networkErrors
HasRetryableStatus(e) == e.status \in retryableStatuses
HasRetryPhrasing(e) ==
  \E p \in {"rate limit", "too many requests", "quota exceeded", "timeout",
            "timed out"} : MsgIncludes(e.msg, p)

\* C14: for an error object (with a string message or none),
\* isRetryableError is true when it carries a transport-error code, or a
\* status of {408, 429, 500, 502, 503, 504}, or a message with rate-limit /
\* quota / timeout phrasing, whatever its other fields hold, and false when
\* none of the three holds.
C14_RetryClassification ==
  (fn = "isRetryableError" /\ arg.kind = "object" /\ arg.msg # "nonstring") =>
    ret = (IF \/ HasTransportCode(arg)
              \/ HasRetryableStatus(arg)
              \/ HasRetryPhrasing(arg)
             THEN "true" ELSE "false")

\* C15: isRetryableError returns true or false for every error value: null,
\* a primitive, an object with missing fields, an object whose message is
\* no string.
C15_ClassifierTotal ==
  fn = "isRetryableError" => ret \in {"true", "false"}

\* the provider name the constructor was asked for
RequestedProvider == IF arg.provider # "" THEN arg.provider ELSE arg.envProvider

\* C16: constructing a verifier with a provider name for which no
\* descriptor exists fails with a ConfigurationError and produces no
\* verifier bound to another provider.
C16_UnsupportedProviderFails ==
  (fn = "constructor" /\ RequestedProvider \notin configs \cup {""}) =>
    /\ ret.threw = "ConfigurationError"
    /\ ret.client = "none"

\* C17: every result verify() returns after a provider failure has
\* isValid = false, confidence = 0, an error field equal to the message of
\* the last error, a reason containing that message, metrics with latency,
\* inputTokens, outputTokens, totalTokens and cost all 0, and metadata with
\* the error type, the error code or status, and retryable equal to
\* isRetryableError of the last error.
C17_DoneErrorShape ==
  \A k \in Verifications :
    (Finished(k) /\ outcome[k].kind = "returned" /\ ~LastReply(k).ok) =>
      LET r == outcome[k].result
          e == LastReply(k).error
      IN  /\ ~r.isValid
          /\ r.confidence = JNum(0)
          /\ ErrorSet(r)
          /\ r.error = e.msg
          /\ r.reason[2] = e.msg
          /\ \A f \in DOMAIN r.metrics : r.metrics[f] = 0
          /\ DOMAIN r.metrics =
               {"latency", "inputTokens", "outputTokens", "totalTokens", "cost"}
          /\ r.metadata.errorType \in {"Error", "String"}
          /\ r.metadata.errorCode =
               (IF e.code # "none" THEN <<e.code, 0>> ELSE <<"none", e.status>>)
          /\ r.metadata.retryable = (isRetryableError(e) = "true")

\* C18: normalizeScore(normalizeScore(x)) = normalizeScore(x) for every
\* finite x >= 0.
C18_NormalizeIdempotent ==
  fn = "normalizeScore" => normalizeScore(ret) = ret
\* normalizeScore was applied to 85, and to 0.5
C18_Witness ==
  /\ fn = "normalizeScore"
  /\ arg \in {JNum(85 * One), JNum(500)}
  /\ ret.t = "num" /\ ret.n > 0

\* C19: normalizeScore(0) = 0, normalizeScore(1) = 1, normalizeScore(0.5) =
\* 0.5, normalizeScore(4) = 0.8, normalizeScore(8) = 0.8 and
\* normalizeScore(85) = 0.85.
C19_NormalizeRescales ==
  fn = "normalizeScore" =>
    /\ arg = JNum(0) => ret = JNum(0)
    /\ arg = JNum(One) => ret = JNum(One)
    /\ arg = JNum(500) => ret = JNum(500)
    /\ arg = JNum(4 * One) => ret = JNum(800)
    /\ arg = JNum(8 * One) => ret = JNum(800)
    /\ arg = JNum(85 * One) => ret = JNum(850)

\* the reply of verification k held JSON: extractJSONFromText gave a truthy
\* value
JsonExtracted(k) ==
  /\ LastReply(k).ok
  /\ ~extractJSONFromText(LastReply(k).text).isNull
  /\ extractJSONFromText(LastReply(k).text).data.truthy

\* C20: whenever JSON was extracted from the reply, the categories map of
\* the result has exactly the seven canonical keys; a canonical category
\* that the reply lacks, or whose entry is no object, holds {passed: false,
\* score: 0, explanation: "Category not checked"}; names outside the seven
\* are dropped.
C20_StructuredCategories ==
  \A k \in Verifications :
    (Finished(k) /\ outcome[k].kind = "returned" /\ JsonExtracted(k)) =>
      LET given == LastReply(k).text.data.categories
          cats == outcome[k].result.categories
      IN  /\ DOMAIN cats = validCategoryNames
          /\ \A c \in validCategoryNames :
               (c \notin DOMAIN given \/ ~given[c].obj) =>
                 cats[c] = CategoryResult(FALSE, JNum(0), "Category not checked")

\* C21: parsing the serialisation of an object that matches the output
\* schema gives back its values: isValid, confidence, and passed, score and
\* explanation of each of the seven categories.
C21_RoundTrip ==
  (fn = "parseLLMResponse" /\ arg \in SchemaTexts) =>
    /\ ret.path = "structured"
    /\ ret.result.isValid = arg.data.isValid.b
    /\ ret.result.confidence = arg.data.confidence
    /\ DOMAIN ret.result.categories = validCategoryNames
    /\ \A c \in validCategoryNames :
         ret.result.categories[c] =
           CategoryResult(arg.data.categories[c].passed.b,
                          arg.data.categories[c].score,
                          arg.data.categories[c].expl)

\* a word of one of the two indicator lists occurs in the text of the call
PositiveFound ==
  \E w \in arg.words :
    \E p \in {"valid", "passed", "ok", "good", "safe", "appropriate",
              "acceptable"} : WordIncludes(w, p)
NegativeFound ==
  \E w \in arg.words :
    \E p \in {"invalid", "failed", "bad", "unsafe", "inappropriate", "reject"} :
      WordIncludes(w, p)

\* C22: for a text from which no JSON step extracts a value the result
\* comes from the free-text path: isValid = (a positive word occurs) and not
\* (a negative word occurs); the confidence is the number after
\* "confidence" when there is one (a number of [0, 1] as it is, a larger one
\* clamped to 1), else 0.8, 0.4 or 0.6 by the hedge words; the categories
\* map is empty.  "isValid: true, confidence is about 0.9, reason: looks
\* fine" gives isValid = true, confidence 0.9, no categories.
C22_FreeTextVerdict ==
  (fn = "parseLLMResponse" /\ arg.form \in {"free", "broken"}) =>
    /\ ret.path = "freetext"
    /\ ret.result.isValid = (PositiveFound /\ ~NegativeFound)
    /\ ret.result.categories = EmptyMap
    /\ ~ErrorSet(ret.result)
    /\ (arg.conf >= 0 /\ arg.conf <= One) => ret.result.confidence = JNum(arg.conf)
    /\ arg.conf > One => ret.result.confidence = JNum(One)
    /\ arg.conf < 0 =>
         ret.result.confidence =
           (IF arg.confident > arg.uncertain THEN JNum(800)
            ELSE IF arg.uncertain > arg.confident THEN JNum(400)
            ELSE JNum(600))
    /\ arg = FreeText =>
         /\ ret.result.isValid
         /\ ret.result.confidence = JNum(900)
\* the example text was parsed
C22_Witness ==
  /\ fn = "parseLLMResponse"
  /\ arg = FreeText
  /\ ret.path = "freetext"
  /\ ret.result.isValid

\* the payload of a three-part token, and whether its exp lies in the past
PayloadOf(token) == base64UrlDecode(token[2])
ExpInPast(token, now) ==
  /\ PayloadOf(token).exp # NoTime
  /\ PayloadOf(token).exp < now

\* C23: verifyJWT rejects every three-part token whose payload exp lies in
\* the past with 'JWT token expired', whoever signed it.
C23_ExpiredIsRejected ==
  (/\ fn = "verifyJWT"
   /\ Len(arg.token) = 3
   /\ ExpInPast(arg.token, arg.now)) => ret = Threw("JWT token expired")

\* C30: a password reset token issued at t carries exp = t + 3600;
\* verifyPasswordResetToken accepts it up to t + 3600 and rejects it as
\* expired at any later time.
C30_ResetTokenOneHour ==
  (fn = "verifyPasswordResetToken" /\ arg.issued # NoTime) =>
    /\ PayloadOf(arg.token).exp = arg.issued + 3600
    /\ arg.now <= arg.issued + 3600 => ret = Returned(arg.userId)
    /\ arg.now > arg.issued + 3600 => ret = Threw("JWT token expired")

\* registration requests r and other with the same email, r answered and
\* other registered with 201
AnsweredBeside(r, other) ==
  /\ r # other
  /\ reg[r].email = reg[other].email
  /\ reg[r].pc = "done"
  /\ reg[other].response.status = 201

\* C24: a registration request whose email another request registered, before
\* it or concurrently with it, is answered 409 'Email already registered',
\* never 201 and never 500; no two rows of users carry the same email.
C24_EmailUnique ==
  /\ \A u1, u2 \in users : u1.email = u2.email => u1 = u2
  /\ \A r, other \in DOMAIN reg :
       (AnsweredBeside(r, other) /\ reg[r].response.status # 201) =>
         reg[r].response = Response(409, "Email already registered")
  /\ \A r, other \in DOMAIN reg :
       AnsweredBeside(r, other) => reg[r].response.status # 201

\* the score field of category c in the parsed reply
ReplyScore(c) ==
  IF c \in DOMAIN arg.data.categories /\ arg.data.categories[c].obj
    THEN arg.data.categories[c].score
    ELSE Absent
\* a number (not NaN) between 0 and 1
UnitNumber(v) == v.t = "num" /\ 0 <= v.n /\ v.n <= One

\* C25: on the structured path every category score is a number in [0, 1],
\* and for a number or a numeric string in the score field it is the value
\* the confidence rule gives for the same input.
C25_BoundedCategoryScores ==
  (fn = "parseLLMResponse" /\ ret.path = "structured") =>
    \A c \in DOMAIN ret.result.categories :
      /\ UnitNumber(ret.result.categories[c].score)
      /\ (ReplyScore(c).t = "num" \/ (ReplyScore(c).t = "str" /\ ReplyScore(c).nm)) =>
           ret.result.categories[c].score = calculateConfidence(ReplyScore(c))

\* the per-call value when one is given, the static default otherwise
Governing(given, default) == IF given # NoOption THEN given ELSE default

\* C26: the model, temperature (0 included), max output tokens, timeout and
\* retry attempt count that govern a call are those of its options when
\* given, and the verifier's defaults only when absent.
C26_OptionsOverrideDefaults ==
  fn = "callLLMWithRetry" =>
    /\ ret.model = (IF arg.options.model # "" THEN arg.options.model
                                              ELSE arg.this.defaultModel)
    /\ ret.temperature = Governing(arg.options.temperature, arg.this.temperature)
    /\ ret.maxTokens = Governing(arg.options.maxTokens, arg.this.maxTokens)
    /\ ret.timeout = Governing(arg.options.timeout, arg.this.timeout)
    /\ ret.retries = Governing(arg.options.retryAttempts, arg.this.maxRetries)

\* an operation of the verifier has been called
OperationCalled == api # "none"
\* the fields getStats() reads and the constructor wrote
Fields == <<config, maxRetries, sentryEnabled>>

\* C27: no step of verify(), verifyBatch(), testConnection() or getStats()
\* changes the provider descriptor, price table, default model, maxRetries,
\* timeout, temperature, maxTokens or criteria; verifyBatch leaves the
\* caller's options object as it was passed; all getStats() calls of a run
\* return the same values.
C27_State ==
  /\ \A a, b \in DOMAIN stats : stats[a] = stats[b]
  /\ api = "verifyBatch" => batchOptions.batchSize \in {0, batchSize}
C27_Step ==
  /\ Fields' = Fields
  /\ OperationCalled => batchOptions' = batchOptions
C27_ConfigReadOnly == [](C27_State) /\ [][C27_Step]_vars

\* getStats() was called before the operation started and after it ended
C27_Witness ==
  /\ Len(stats) = 2
  /\ stats[2] = getStats
  /\ \/ api = "verifyBatch" /\ bpc = "done" /\ n = 2 /\ Len(paces) = 1
     \/ api = "testConnection" /\ tc.pc = "done" /\ tc.retryCount = 1

\* verifyBatch returned its results or rejected
BatchEnded == bpc \in {"done", "threw"}

\* C28: verifyBatch terminates for every batchSize: an empty list returns []
\* at once, with no provider call and no pacing delay; each pass of the for
\* loop moves i towards inputs.length; every call eventually ends.
C28_Empty ==
  (api = "verifyBatch" /\ n = 0) =>
    /\ bpc = "done"
    /\ results = <<>>
    /\ paces = <<>>
    /\ calls = <<>>
C28_Pass == (bpc = "pacing" /\ bpc' # "pacing") => i < i'
C28_BatchTerminates ==
  /\ [](C28_Empty)
  /\ [][C28_Pass]_vars
  /\ (api = "verifyBatch") ~> BatchEnded

\* whether the call of a provider fails, from the inputs alone
GeminiFails == ~arg.env.GEMINI_API_KEY \/ arg.fetched.gemini # "completion"
OpenAIFails == ~arg.env.OPENAI_API_KEY \/ arg.fetched.openai # "completion"
\* callAI threw the error of this provider function
ThrewErrorOf(name) ==
  /\ ret.settled.threw # "none"
  /\ name \in {ret.settled.threw[1], ret.settled.threw[2]}
RespondedAs(provider) ==
  /\ ret.settled.threw = "none"
  /\ ret.settled.value.provider = provider

\* C29: a failed 'gemini' call is retried through 'openai' exactly once and
\* only when an OpenAI key is configured; an 'openai' failure, first or as
\* fallback, is rethrown with no further call; one request makes at most two
\* provider calls and settles with a response or a thrown error.
C29_BoundedFallback ==
  fn = "callAI" =>
    /\ Len(ret.called) <= 2
    /\ ret.settled.threw = "none" \/ ret.settled.value = "none"
    /\ (arg.request.provider = "gemini" /\ ~GeminiFails) =>
         ret.called = <<"gemini">> /\ RespondedAs("gemini")
    /\ (arg.request.provider = "gemini" /\ GeminiFails /\ ~arg.env.OPENAI_API_KEY) =>
         ret.called = <<"gemini">> /\ ThrewErrorOf("Gemini")
    /\ (arg.request.provider = "gemini" /\ GeminiFails /\ arg.env.OPENAI_API_KEY) =>
         /\ ret.called = <<"gemini", "openai">>
         /\ IF OpenAIFails THEN ThrewErrorOf("OpenAI") ELSE RespondedAs("openai")
    /\ arg.request.provider = "openai" =>
         /\ ret.called = <<"openai">>
         /\ IF OpenAIFails THEN ThrewErrorOf("OpenAI") ELSE RespondedAs("openai")
    /\ arg.request.provider \notin {"gemini", "openai"} =>
         ret.called = <<>> /\ ret.settled.threw # "none"

\* the fallback was taken and failed too
C29_Witness ==
  /\ fn = "callAI"
  /\ arg.request.provider = "gemini"
  /\ arg.fetched.gemini = "not ok"
  /\ arg.fetched.openai = "rejected"
  /\ ret.called = <<"gemini", "openai">>
  /\ ThrewErrorOf("OpenAI")
====
